---- MODULE Spec2Model ----
(***************************************************************************)
(* Generated actor networks of the ActorSimulation DSL, in their two       *)
(* realizations: CAF event-based actors and OMNeT++ simple modules.        *)
(* Time is in milliseconds.                                                *)
(***************************************************************************)
EXTENDS Integers, Sequences, FiniteSets, TLC

VARIABLES backend, topo, mainPc, handle, role, targets_, send_count_,
          mailbox, timers, fes, selfMsg, now, fires,
          consumedFrom, arrivedIn, injected, ended, alive, last

vars == <<backend, topo, mainPc, handle, role, targets_, send_count_,
          mailbox, timers, fes, selfMsg, now, fires,
          consumedFrom, arrivedIn, injected, ended, alive, last>>

----------------------------------------------------------------------------
(* Bounds of the exploration *)

\* periods of the self-scheduling role explored
MaxPeriods == 2
\* handler executions explored per actor
MaxFirings == 3
\* messages injected from outside the topology
MaxExternal == 1
\* handler executions explored per actor in the undisturbed burst topology
MaxBurstFirings == 21

----------------------------------------------------------------------------
(* Topologies and roles *)

Backends == {"caf", "omnetpp"}

CafTopologies == {"burst", "loadbalanced", "pipeline", "pubsub"}

OmnetTopologies == {"burst", "loadbalanced", "pipeline", "pubsub", "high_freq"}

Atoms == {"batch", "data", "event", "request", "msg"}

\* the atoms a sender outside the topology uses: the one every generated
\* actor sends and the one the default handlers are declared for
ExternalAtoms == {"event", "msg"}

\* the period of the one self-scheduling role of each topology
Period(t) ==
  CASE t = "burst" -> 1000
    [] t = "loadbalanced" -> 10
    [] t = "pipeline" -> 20
    [] t = "pubsub" -> 100
    [] t = "high_freq" -> 1

MaxTime(t) == MaxPeriods * Period(t)

PeriodOf(t, time) == (time + Period(t) - 1) \div Period(t)

MaxPeriodIndex(t) == PeriodOf(t, MaxTime(t)) + 1

----------------------------------------------------------------------------
(* CAF: the generated actor classes *)

\* classes whose schedule_next_send arms a delayed message to self
CafScheduled == {"burst_generator", "load_balancer", "source", "publisher"}

\* classes whose send_to_targets body is empty ("No targets to send to")
CafTerminal == {"processor", "database", "sink",
                "subscriber1", "subscriber2", "subscriber3"}

\* classes whose handler takes caf::atom_value, i.e. any atom
CafAnyAtom == {"stage1", "stage2", "stage3", "server2"}

\* classes whose constructor copies the targets argument into targets_
CafStoresTargets == {"burst_generator", "processor", "load_balancer",
                     "server1", "server2", "server3", "source", "stage1",
                     "stage2", "stage3", "publisher"}

\* the atom the handler of a class is declared for
CafHandlerAtom(r) ==
  CASE r = "burst_generator" -> "batch"
    [] r = "load_balancer" -> "request"
    [] r = "source" -> "data"
    [] r = "publisher" -> "event"
    [] r \in CafAnyAtom -> "any"
    [] OTHER -> "event"

\* the delay of the self-message armed by schedule_next_send
CafDelay(r) ==
  CASE r = "burst_generator" -> 1000
    [] r = "load_balancer" -> 10
    [] r = "source" -> 20
    [] r = "publisher" -> 100
    [] OTHER -> 0

\* a schedule_next_send that arms one delayed message in every class
CafArmCount_single(r) == IF r \in CafScheduled THEN 1 ELSE 0

\* the number of self-messages one call of schedule_next_send arms
CafArmCount(r) ==
  CASE r = "burst_generator" -> 10
    [] r \in CafScheduled -> 1
    [] OTHER -> 0

\* the spawn statements of caf_main, in program order
CafMain(t) ==
  CASE t = "burst" ->
         << [var |-> "processor", args |-> <<>>],
            [var |-> "burst_generator", args |-> <<>>],
            [var |-> "burst_generator", args |-> <<"processor">>] >>
    [] t = "loadbalanced" ->
         << [var |-> "load_balancer", args |-> <<>>],
            [var |-> "server1", args |-> <<>>],
            [var |-> "server2", args |-> <<>>],
            [var |-> "server3", args |-> <<>>],
            [var |-> "database", args |-> <<>>],
            [var |-> "load_balancer",
             args |-> <<"server1", "server2", "server3">>],
            [var |-> "server1", args |-> <<"database">>],
            [var |-> "server2", args |-> <<"database">>],
            [var |-> "server3", args |-> <<"database">>] >>
    [] t = "pipeline" ->
         << [var |-> "source", args |-> <<>>],
            [var |-> "stage1", args |-> <<>>],
            [var |-> "stage2", args |-> <<>>],
            [var |-> "stage3", args |-> <<>>],
            [var |-> "sink", args |-> <<>>],
            [var |-> "source", args |-> <<"stage1">>],
            [var |-> "stage1", args |-> <<"stage2">>],
            [var |-> "stage2", args |-> <<"stage3">>],
            [var |-> "stage3", args |-> <<"sink">>] >>
    [] t = "pubsub" ->
         << [var |-> "publisher", args |-> <<>>],
            [var |-> "subscriber1", args |-> <<>>],
            [var |-> "subscriber2", args |-> <<>>],
            [var |-> "subscriber3", args |-> <<>>],
            [var |-> "publisher",
             args |-> <<"subscriber1", "subscriber2", "subscriber3">>] >>
    [] OTHER -> << >>

Roles == {"processor", "burst_generator", "load_balancer", "server1",
          "server2", "server3", "database", "source", "stage1", "stage2",
          "stage3", "sink", "publisher", "subscriber1", "subscriber2",
          "subscriber3", "producer", "consumer"}

----------------------------------------------------------------------------
(* Steps of a handler, in the order the handler executes them *)

HookOp == [op |-> "hook", to |-> 0, atom |-> "none", due |-> 0]

SendOp(target, a) == [op |-> "send", to |-> target, atom |-> a, due |-> 0]

ArmOp(a, t) == [op |-> "arm", to |-> 0, atom |-> a, due |-> t]

Sends(trace) == SelectSeq(trace, LAMBDA o : o.op = "send")

Arms(trace) == SelectSeq(trace, LAMBDA o : o.op = "arm")

Hooks(trace) == SelectSeq(trace, LAMBDA o : o.op = "hook")

\* the sends of a trace that go to actor j, as mailbox entries from actor i
MailFor(trace, i, j) ==
  LET s == SelectSeq(trace, LAMBDA o : o.op = "send" /\ o.to = j)
  IN [k \in 1..Len(s) |-> [atom |-> s[k].atom, from |-> i, timer |-> FALSE,
                            due |-> 0]]

\* a fan-out that ends at the first target that has terminated
Deliverable_stops_at_stale(trace, live) ==
  LET bad == {k \in 1..Len(trace) :
                trace[k].op = "send" /\ ~live[trace[k].to]}
  IN IF bad = {} THEN trace
     ELSE SubSeq(trace, 1, (CHOOSE k \in bad : \A l \in bad : k <= l) - 1)

\* the trace without the sends whose target has terminated: a message sent
\* to a terminated actor is discarded
Deliverable(trace, live) ==
  SelectSeq(trace, LAMBDA o : o.op = "send" => live[o.to])

\* a send that waits until the target has taken its earlier messages
MailboxAccepts_when_empty(mb) == mb = << >>

\* mail(...).send(target) puts the message into the target's mailbox, which
\* has no capacity limit, and returns
MailboxAccepts(mb) == TRUE

\* a terminated actor's mailbox is closed: the messages in mb that came from
\* actor j and are discarded with it
Discarded(mb, j) == Len(SelectSeq(mb, LAMBDA m : ~m.timer /\ m.from = j))

Ids == 1..Len(role)

\* the number of self-triggers of actor i that are armed and not yet handled:
\* held by the clock, delivered to the mailbox, or in the future event set
PendingCount(i) ==
  Len(timers[i]) + Len(SelectSeq(mailbox[i], LAMBDA m : m.timer))
  + Len(SelectSeq(fes, LAMBDA e : e.self /\ e.dest = i))

NoStep == [kind |-> "none", actor |-> 0, trigger |-> "none", atom |-> "none",
           time |-> 0, trace |-> << >>, before |-> 0, counts |-> << >>,
           tgts |-> << >>, pend |-> << >>, was |-> << >>, due |-> 0,
           seq |-> <<0, 0>>, fes |-> << >>, error |-> FALSE, live |-> << >>]

\* counts, tgts, pend, was and live are send_count_, targets_, the pending
\* self-triggers, selfMsg and alive of every actor as the step found them
Step(k, i, trg, a, t, tr, b) ==
  [kind |-> k, actor |-> i, trigger |-> trg, atom |-> a, time |-> t,
   trace |-> tr, before |-> b, counts |-> send_count_,
   tgts |-> targets_, pend |-> [j \in Ids |-> PendingCount(j)],
   was |-> selfMsg, due |-> t, seq |-> <<0, 0>>, fes |-> << >>,
   error |-> FALSE, live |-> alive]

----------------------------------------------------------------------------
(* CAF: constructor, make_behavior, schedule_next_send, send_to_targets *)

\* a constructor that leaves targets_ default-constructed
CafConstruct_drops_targets(r, targets) == << >>

\* a constructor that stores the targets from last to first
CafConstruct_reversed(r, targets) ==
  IF r \in CafStoresTargets
  THEN [k \in 1..Len(targets) |-> targets[Len(targets) + 1 - k]]
  ELSE << >>

\* <class>_actor::<class>_actor(cfg, targets)
CafConstruct(r, targets) == IF r \in CafStoresTargets THEN targets ELSE << >>

\* schedule_next_send sending to self without the delay
schedule_next_send_no_delay(r, t) ==
  [k \in 1..CafArmCount(r) |-> ArmOp(CafHandlerAtom(r), t)]

\* schedule_next_send arming a delayed message in every class
schedule_next_send_every_class(r, t) ==
  IF r \in CafScheduled
  THEN [k \in 1..CafArmCount(r) |-> ArmOp(CafHandlerAtom(r), t + CafDelay(r))]
  ELSE <<ArmOp(CafHandlerAtom(r), t + CafDelay(r))>>

\* <class>_actor::schedule_next_send() at time t
schedule_next_send(r, t) ==
  [k \in 1..CafArmCount(r) |-> ArmOp(CafHandlerAtom(r), t + CafDelay(r))]

\* send_to_targets iterating the target list from its end
send_to_targets_reversed(r, targets, count) ==
  IF r \in CafTerminal
  THEN [sends |-> << >>, count |-> count]
  ELSE [sends |-> [k \in 1..Len(targets) |->
                     SendOp(targets[Len(targets) + 1 - k], "msg")],
        count |-> count + Len(targets)]

\* send_to_targets without the send_count_++
send_to_targets_no_count(r, targets, count) ==
  IF r \in CafTerminal
  THEN [sends |-> << >>, count |-> count]
  ELSE [sends |-> [k \in 1..Len(targets) |-> SendOp(targets[k], "msg")],
        count |-> count]

\* send_to_targets of a firing that started from the count an earlier firing
\* had read: the earlier firing's increments are overwritten
send_to_targets_lost_update(r, targets, count) ==
  IF r \in CafTerminal
  THEN [sends |-> << >>, count |-> count]
  ELSE [sends |-> [k \in 1..Len(targets) |-> SendOp(targets[k], "msg")],
        count |-> IF count > 0 THEN count ELSE count + Len(targets)]

\* send_to_targets with the send_count_++ after the loop instead of in it
send_to_targets_count_after_loop(r, targets, count) ==
  IF r \in CafTerminal
  THEN [sends |-> << >>, count |-> count]
  ELSE [sends |-> [k \in 1..Len(targets) |-> SendOp(targets[k], "msg")],
        count |-> count + 1]

\* <class>_actor::send_to_targets(): the sends, and send_count_ afterwards
send_to_targets(r, targets, count) ==
  IF r \in CafTerminal
  THEN [sends |-> << >>, count |-> count]
  ELSE [sends |-> [k \in 1..Len(targets) |-> SendOp(targets[k], "msg")],
        count |-> count + Len(targets)]

\* a make_behavior() that returns the handler without arming the actor
make_behavior_not_armed(r, t) == << >>

\* <class>_actor::make_behavior() at time t: the steps before the return
make_behavior(r, t) == schedule_next_send(r, t)

\* a behavior whose handler accepts every atom
CafMatches_any(r, a) == TRUE

\* does the handler returned by make_behavior accept the atom
CafMatches(r, a) == r \in CafAnyAtom \/ a = CafHandlerAtom(r)

\* a handler that calls the hook as its last statement
CafHandlerBody_hook_last(r, targets, count, t) ==
  LET s == send_to_targets(r, targets, count)
  IN [trace |-> s.sends \o schedule_next_send(r, t)
                 \o (IF r \in CafScheduled THEN <<HookOp>> ELSE << >>),
      count |-> s.count]

\* the body of the handler returned by make_behavior
CafHandlerBody(r, targets, count, t) ==
  LET s == send_to_targets(r, targets, count)
  IN [trace |-> (IF r \in CafScheduled THEN <<HookOp>> ELSE << >>)
                 \o s.sends \o schedule_next_send(r, t),
      count |-> s.count]

\* the handler of a self-scheduling class when its hook throws: the
\* statements before the call of the hook have run, those after it have not
CafHandlerBodyThrows(r, targets, count, t) ==
  LET b == CafHandlerBody(r, targets, count, t)
      h == CHOOSE k \in 1..Len(b.trace) :
             /\ b.trace[k].op = "hook"
             /\ \A l \in 1..(k - 1) : b.trace[l].op # "hook"
      done == SubSeq(b.trace, 1, h)
  IN [trace |-> done, count |-> count + Len(Sends(done))]

\* pending delayed messages as the clock holds them
TimerEntries(trace) ==
  LET a == Arms(trace)
  IN [k \in 1..Len(a) |-> [due |-> a[k].due, atom |-> a[k].atom]]

\* the clock keeps the delayed messages ordered by due time, and by insertion
\* among equal due times
InsertTimer(q, e) ==
  LET k == Cardinality({j \in 1..Len(q) : q[j].due <= e.due})
  IN SubSeq(q, 1, k) \o <<e>> \o SubSeq(q, k + 1, Len(q))

RECURSIVE InsertTimers(_, _)
InsertTimers(q, es) ==
  IF es = << >> THEN q ELSE InsertTimers(InsertTimer(q, Head(es)), Tail(es))

\* the delayed messages that are due at time t, in dispatch order
DueTimers(q, t) == SelectSeq(q, LAMBDA e : e.due <= t)

\* the earliest due time over the queues of all actors
NextDueTime(qs) ==
  LET dues == {qs[i][1].due : i \in {j \in 1..Len(qs) : qs[j] # << >>}}
  IN CHOOSE d \in dues : \A e \in dues : d <= e

NotDue(q, t) == SelectSeq(q, LAMBDA e : e.due > t)

\* a dispatch loop that hands over one message for all that are due
DispatchDue_coalesced(q, t) ==
  [due |-> <<Head(DueTimers(q, t))>>, rest |-> NotDue(q, t)]

\* a dispatch loop that takes the entry with the latest due time
DispatchDue_latest_first(q, t) ==
  [due |-> <<q[Len(q)]>>, rest |-> SubSeq(q, 1, Len(q) - 1)]

\* one run of the clock's dispatch loop at time t over the delayed messages
\* of an actor: the messages handed to the mailbox, and those kept
DispatchDue(q, t) == [due |-> DueTimers(q, t), rest |-> NotDue(q, t)]

AddArrivals(arr, trace, t) ==
  [j \in 1..Len(arr) |->
     [arr[j] EXCEPT ![PeriodOf(topo, t)] =
        @ + Len(SelectSeq(trace, LAMBDA o : o.op = "send" /\ o.to = j))]]

----------------------------------------------------------------------------
(* OMNeT++: the generated simple modules *)

\* modules whose initialize() creates and schedules selfMsg
OmnetScheduled == {"burst_generator", "load_balancer", "source", "publisher",
                   "producer"}

\* modules whose handleMessage is the unconditional "Receive only" body
OmnetReceiveOnly == {"server1", "stage1", "stage3", "subscriber2",
                     "subscriber3"}

\* the interval of scheduleAt(simTime() + interval, ...)
OmnetInterval(r) ==
  CASE r = "burst_generator" -> 1000
    [] r = "load_balancer" -> 10
    [] r = "source" -> 20
    [] r = "publisher" -> 100
    [] r = "producer" -> 1
    [] OTHER -> 0

\* the bound of the outer loop of the send block
OmnetBurst(r) ==
  CASE r = "burst_generator" -> 10
    [] r \in OmnetScheduled -> 1
    [] OTHER -> 0

\* the bound of the loop over the gates out[0], out[1], ...
OmnetGates(r) ==
  CASE r = "load_balancer" -> 3
    [] r = "publisher" -> 3
    [] r \in OmnetScheduled -> 1
    [] OTHER -> 0

\* the name given to the messages a module sends
OmnetMsgName(r) == IF r = "burst_generator" THEN "batch" ELSE "msg"

\* the submodules of the network, in creation order
Network(t) ==
  CASE t = "burst" -> <<"processor", "burst_generator">>
    [] t = "loadbalanced" ->
         <<"load_balancer", "server1", "server2", "server3", "database">>
    [] t = "pipeline" -> <<"source", "stage1", "stage2", "stage3", "sink">>
    [] t = "pubsub" ->
         <<"publisher", "subscriber1", "subscriber2", "subscriber3">>
    [] t = "high_freq" -> <<"producer", "consumer">>

\* the module at the far end of gate out[g] of a module, g counted from 1
Connections(r) ==
  CASE r = "burst_generator" -> <<"processor">>
    [] r = "load_balancer" -> <<"server1", "server2", "server3">>
    [] r \in {"server1", "server2", "server3"} -> <<"database">>
    [] r = "source" -> <<"stage1">>
    [] r = "stage1" -> <<"stage2">>
    [] r = "stage2" -> <<"stage3">>
    [] r = "stage3" -> <<"sink">>
    [] r = "publisher" -> <<"subscriber1", "subscriber2", "subscriber3">>
    [] r = "producer" -> <<"consumer">>
    [] OTHER -> << >>

\* position of a module in the network
ModuleId(t, r) == CHOOSE k \in 1..Len(Network(t)) : Network(t)[k] = r

\* an initialize() that schedules selfMsg for the current time
initialize_no_initial_delay(r, t) ==
  IF r \in OmnetScheduled
  THEN [sendCount |-> 0, selfMsg |-> "scheduled",
        trace |-> <<ArmOp("selfMsg", t)>>]
  ELSE [sendCount |-> 0, selfMsg |-> "null", trace |-> << >>]

\* <Module>::initialize() at time t: the value of selfMsg and the scheduleAt
initialize(r, t) ==
  IF r \in OmnetScheduled
  THEN [sendCount |-> 0, selfMsg |-> "scheduled",
        trace |-> <<ArmOp("selfMsg", t + OmnetInterval(r))>>]
  ELSE [sendCount |-> 0, selfMsg |-> "null", trace |-> << >>]

\* a send block whose inner loop runs over the gates from the last to the
\* first
OmnetSendBlock_descending(r, gates) ==
  [k \in 1..(OmnetBurst(r) * OmnetGates(r)) |->
     LET g == OmnetGates(r) - ((k - 1) % OmnetGates(r))
     IN SendOp(IF g <= Len(gates) THEN gates[g] ELSE 0, OmnetMsgName(r))]

\* the send block of handleMessage: for i < burst, for g < gates: send, count
OmnetSendBlock(r, gates) ==
  [k \in 1..(OmnetBurst(r) * OmnetGates(r)) |->
     LET g == ((k - 1) % OmnetGates(r)) + 1
     IN SendOp(IF g <= Len(gates) THEN gates[g] ELSE 0, OmnetMsgName(r))]

\* a handleMessage whose else branch schedules selfMsg as well
handleMessage_rearms_on_inbound(r, gates, count, isSelf, t) ==
  IF r \in OmnetReceiveOnly
  THEN [kind |-> "recv", trace |-> << >>, count |-> count]
  ELSE IF r \in OmnetScheduled
       THEN LET s == IF isSelf THEN OmnetSendBlock(r, gates) ELSE << >>
            IN [kind |-> IF isSelf THEN "fire" ELSE "recv",
                trace |-> s \o <<ArmOp("selfMsg", t + OmnetInterval(r))>>,
                count |-> count + Len(s)]
       ELSE [kind |-> IF isSelf THEN "fire" ELSE "recv", trace |-> << >>,
             count |-> count]

\* a handleMessage that counts the messages it receives
handleMessage_counts_inbound(r, gates, count, isSelf, t) ==
  IF r \in OmnetReceiveOnly
  THEN [kind |-> "recv", trace |-> << >>, count |-> count + 1]
  ELSE IF isSelf
       THEN IF r \in OmnetScheduled
            THEN LET s == OmnetSendBlock(r, gates)
                 IN [kind |-> "fire",
                     trace |-> s \o <<ArmOp("selfMsg", t + OmnetInterval(r))>>,
                     count |-> count + Len(s)]
            ELSE [kind |-> "fire", trace |-> << >>, count |-> count]
       ELSE [kind |-> "recv", trace |-> << >>, count |-> count + 1]

\* <Module>::handleMessage(msg) at time t
handleMessage(r, gates, count, isSelf, t) ==
  IF r \in OmnetReceiveOnly
  THEN [kind |-> "recv", trace |-> << >>, count |-> count]
  ELSE IF isSelf
       THEN IF r \in OmnetScheduled
            THEN LET s == OmnetSendBlock(r, gates)
                 IN [kind |-> "fire",
                     trace |-> s \o <<ArmOp("selfMsg", t + OmnetInterval(r))>>,
                     count |-> count + Len(s)]
            ELSE [kind |-> "fire", trace |-> << >>, count |-> count]
       ELSE [kind |-> "recv", trace |-> << >>, count |-> count]

RECURSIVE SumSeq(_)
SumSeq(q) == IF q = << >> THEN 0 ELSE Head(q) + SumSeq(Tail(q))

\* the insertion order the kernel stamps on the k-th event that the current
\* initialize(), handleMessage() or outside sender inserts
InsertionNo(k) == <<mainPc + injected + SumSeq(fires), k>>

\* was the event stamped a inserted before the event stamped b
Earlier(a, b) == a[1] < b[1] \/ (a[1] = b[1] /\ a[2] < b[2])

\* a future event set that puts a new event before those of equal time
InsertFes_lifo(q, e) ==
  LET k == Cardinality({j \in 1..Len(q) : q[j].time < e.time})
  IN SubSeq(q, 1, k) \o <<e>> \o SubSeq(q, k + 1, Len(q))

\* the future event set is ordered by arrival time, and by insertion among
\* equal arrival times
InsertFes(q, e) ==
  LET k == Cardinality({j \in 1..Len(q) : q[j].time <= e.time})
  IN SubSeq(q, 1, k) \o <<e>> \o SubSeq(q, k + 1, Len(q))

RECURSIVE InsertAllFes(_, _)
InsertAllFes(q, es) ==
  IF es = << >> THEN q ELSE InsertAllFes(InsertFes(q, Head(es)), Tail(es))

\* the events a handler trace puts into the future event set
FesEvents(trace, i, t) ==
  LET s == SelectSeq(trace, LAMBDA o : (o.op = "send" /\ o.to # 0)
                                        \/ o.op = "arm")
  IN [k \in 1..Len(s) |->
        IF s[k].op = "arm"
        THEN [time |-> s[k].due, dest |-> i, self |-> TRUE,
              atom |-> s[k].atom, from |-> i, seq |-> InsertionNo(k)]
        ELSE [time |-> t, dest |-> s[k].to, self |-> FALSE,
              atom |-> s[k].atom, from |-> i, seq |-> InsertionNo(k)]]

\* a finish() that deletes the message but keeps the pointer
finish_keeps_pointer(sm) ==
  IF sm # "null"
  THEN [selfMsg |-> "dangling", cancel |-> TRUE, error |-> sm # "scheduled"]
  ELSE [selfMsg |-> sm, cancel |-> FALSE, error |-> FALSE]

\* a finish() that forgets the timer and leaves its event scheduled
finish_no_cancel(sm) ==
  [selfMsg |-> "null", cancel |-> FALSE, error |-> FALSE]

\* <Module>::finish(): selfMsg afterwards, whether cancelAndDelete ran, and
\* whether it ran on a pointer that is not a live message
finish(sm) ==
  IF sm # "null"
  THEN [selfMsg |-> "null", cancel |-> TRUE, error |-> sm # "scheduled"]
  ELSE [selfMsg |-> sm, cancel |-> FALSE, error |-> FALSE]

----------------------------------------------------------------------------
(* Initial state: before main spawns the first actor *)

Init ==
  /\ backend \in Backends
  /\ topo \in OmnetTopologies
  /\ backend = "caf" => topo \in CafTopologies
  /\ mainPc = 0
  /\ handle = [r \in Roles |-> 0]
  /\ role = << >>
  /\ targets_ = << >>
  /\ send_count_ = << >>
  /\ mailbox = << >>
  /\ timers = << >>
  /\ fes = << >>
  /\ selfMsg = << >>
  /\ now = 0
  /\ fires = << >>
  /\ consumedFrom = << >>
  /\ arrivedIn = << >>
  /\ injected = 0
  /\ ended = FALSE
  /\ alive = << >>
  /\ last = NoStep

----------------------------------------------------------------------------
(* CAF actions *)

\* caf_main: the next system.spawn<...>(targets) statement.  The spawned
\* actor is scheduled at once; its make_behavior() is taken to run before the
\* next statement of main.
CafSpawn ==
  /\ backend = "caf"
  /\ mainPc < Len(CafMain(topo))
  /\ LET st == CafMain(topo)[mainPc + 1]
         tg == [k \in 1..Len(st.args) |-> handle[st.args[k]]]
         id == Len(role) + 1
         tr == make_behavior(st.var, now)
     IN /\ role' = Append(role, st.var)
        /\ targets_' = Append(targets_, CafConstruct(st.var, tg))
        /\ send_count_' = Append(send_count_, 0)
        /\ mailbox' = Append(mailbox, << >>)
        /\ timers' = Append(timers, InsertTimers(<< >>, TimerEntries(tr)))
        /\ selfMsg' = Append(selfMsg, "null")
        /\ fires' = Append(fires, 0)
        /\ consumedFrom' = Append(consumedFrom, 0)
        /\ arrivedIn' = Append(arrivedIn, [p \in 0..MaxPeriodIndex(topo) |-> 0])
        /\ handle' = [handle EXCEPT ![st.var] = id]
        /\ alive' = Append(alive, TRUE)
        /\ last' = Step("spawn", id, "none", "none", now, tr, 0)
  /\ mainPc' = mainPc + 1
  /\ UNCHANGED <<backend, topo, fes, now, injected, ended>>

\* the wall clock reaches the due time of the next delayed message.  Main's
\* spawn statements and the handling of a message take less than the time
\* to the next due time.
CafTickUpTo(cap) ==
  /\ backend = "caf"
  /\ mainPc = Len(CafMain(topo))
  /\ \A i \in Ids : mailbox[i] = << >> \/ fires[i] >= cap
  /\ \A i \in Ids : DueTimers(timers[i], now) = << >>
  /\ \E i \in Ids : timers[i] # << >>
  /\ LET t == NextDueTime(timers)
     IN /\ t <= MaxTime(topo)
        /\ now' = t
        /\ last' = Step("tick", 0, "none", "none", t, << >>, 0)
  /\ UNCHANGED <<backend, topo, mainPc, handle, role, targets_, send_count_,
                 mailbox, timers, fes, selfMsg, fires, consumedFrom,
                 arrivedIn, injected, ended, alive>>

CafTick == CafTickUpTo(MaxFirings)

\* the clock's dispatch loop delivers the due delayed messages of an actor
\* into its mailbox.  The clock is one thread; among actors with messages
\* due it serves them in the order they were spawned.  A delayed message
\* that comes due for a terminated actor is discarded.
CafTimeout(i) ==
  /\ backend = "caf"
  /\ i \in Ids
  /\ \E k \in 1..Len(timers[i]) : timers[i][k].due <= now
  /\ \A j \in 1..(i - 1) : DueTimers(timers[j], now) = << >>
  /\ LET d == DispatchDue(timers[i], now).due
     IN /\ timers' = [timers EXCEPT ![i] = DispatchDue(@, now).rest]
        /\ mailbox' = IF alive[i]
                       THEN [mailbox EXCEPT ![i] =
                               @ \o [k \in 1..Len(d) |->
                                       [atom |-> d[k].atom, from |-> i,
                                        timer |-> TRUE, due |-> d[k].due]]]
                       ELSE mailbox
        /\ last' = Step("timeout", i, "none", d[1].atom, now, << >>,
                        send_count_[i])
  /\ UNCHANGED <<backend, topo, mainPc, handle, role, targets_, send_count_,
                 fes, selfMsg, now, fires, consumedFrom, arrivedIn,
                 injected, ended, alive>>

\* the actor has a message to take and may run its behavior on it; cap is
\* the bound on the handler executions of an actor
CafReadyUpTo(i, cap) ==
  /\ backend = "caf"
  /\ i \in Ids
  /\ alive[i]
  /\ mailbox[i] # << >>
  /\ fires[i] < cap
  /\ \A k \in 1..Len(targets_[i]) : MailboxAccepts(mailbox[targets_[i][k]])

CafReady(i) == CafReadyUpTo(i, MaxFirings)

\* the actor takes the next message of its mailbox and runs its behavior
CafHandleUpTo(i, cap) ==
  /\ CafReadyUpTo(i, cap)
  /\ LET m == Head(mailbox[i])
         trg == IF m.timer THEN "timer" ELSE "message"
         rest == [mailbox EXCEPT ![i] = Tail(@)]
         taken == IF ~m.timer /\ m.from \in Ids
                  THEN [consumedFrom EXCEPT ![m.from] = @ + 1]
                  ELSE consumedFrom
     IN IF CafMatches(role[i], m.atom)
           THEN LET b == CafHandlerBody(role[i], targets_[i], send_count_[i],
                                        now)
                    d == Deliverable(b.trace, alive)
                IN /\ send_count_' = [send_count_ EXCEPT ![i] = b.count]
                   /\ mailbox' = [j \in Ids |-> rest[j] \o MailFor(d, i, j)]
                   /\ timers' = [timers EXCEPT ![i] =
                                   InsertTimers(@, TimerEntries(b.trace))]
                   /\ arrivedIn' = AddArrivals(arrivedIn, d, now)
                   /\ consumedFrom' = [taken EXCEPT ![i] =
                                         @ + Len(b.trace) - Len(d)]
                   /\ fires' = [fires EXCEPT ![i] = @ + 1]
                   /\ last' = [Step("fire", i, trg, m.atom, now, b.trace,
                                    send_count_[i])
                                 EXCEPT !.due = IF m.timer THEN m.due ELSE now]
           ELSE \* default handler: the message is dropped
                /\ mailbox' = rest
                /\ consumedFrom' = taken
                /\ last' = Step("drop", i, trg, m.atom, now, << >>,
                                send_count_[i])
                /\ UNCHANGED <<send_count_, timers, arrivedIn, fires>>
  /\ UNCHANGED <<backend, topo, mainPc, handle, role, targets_, fes,
                 selfMsg, now, injected, ended, alive>>

CafHandle(i) == CafHandleUpTo(i, MaxFirings)

\* an exception that leaves a message handler ends every actor of the system
CafOnException_terminates_all(live, i) == [j \in 1..Len(live) |-> FALSE]

\* an exception that leaves a message handler is caught by the actor that
\* ran the handler, and that actor terminates
CafOnException(live, i) == [live EXCEPT ![i] = FALSE]

\* the messages of every sender that are discarded with the mailbox of i
DiscardMailbox(i) ==
  [j \in Ids |-> consumedFrom[j] + Discarded(mailbox[i], j)]

\* the actor takes the next message of its mailbox and the hook that its
\* handler calls first throws: the statements after the hook do not run.
\* Failures of hooks count against the bound on outside disturbances.
CafHookThrows(i) ==
  /\ CafReady(i)
  /\ role[i] \in CafScheduled
  /\ CafMatches(role[i], Head(mailbox[i]).atom)
  /\ injected < MaxExternal
  /\ injected' = injected + 1
  /\ alive' = CafOnException(alive, i)
  /\ LET m == Head(mailbox[i])
         b == CafHandlerBodyThrows(role[i], targets_[i], send_count_[i], now)
         d == Deliverable(b.trace, alive')
     IN /\ send_count_' = [send_count_ EXCEPT ![i] = b.count]
        /\ mailbox' = [j \in Ids |-> IF alive'[j]
                                      THEN mailbox[j] \o MailFor(d, i, j)
                                      ELSE << >>]
        /\ timers' = [timers EXCEPT ![i] =
                        InsertTimers(@, TimerEntries(b.trace))]
        /\ arrivedIn' = AddArrivals(arrivedIn, d, now)
        /\ consumedFrom' = [DiscardMailbox(i) EXCEPT ![i] =
                              @ + Len(b.trace) - Len(d)]
        /\ last' = [Step("throw", i, IF m.timer THEN "timer" ELSE "message",
                         m.atom, now, b.trace, send_count_[i])
                      EXCEPT !.due = IF m.timer THEN m.due ELSE now]
  /\ UNCHANGED <<backend, topo, mainPc, handle, role, targets_, fes, selfMsg,
                 now, fires, ended>>

\* an exit message from outside the topology terminates an actor that main
\* holds a handle of.  It counts against the bound on outside disturbances,
\* and is explored for the actors that some actor holds as a target.
CafExit(i) ==
  /\ backend = "caf"
  /\ i \in Ids
  /\ mainPc = Len(CafMain(topo))
  /\ handle[role[i]] = i
  /\ alive[i]
  /\ \E j \in Ids : \E k \in 1..Len(targets_[j]) : targets_[j][k] = i
  /\ injected < MaxExternal
  /\ injected' = injected + 1
  /\ alive' = [alive EXCEPT ![i] = FALSE]
  /\ mailbox' = [mailbox EXCEPT ![i] = << >>]
  /\ consumedFrom' = DiscardMailbox(i)
  /\ last' = Step("exit", i, "none", "none", now, << >>, send_count_[i])
  /\ UNCHANGED <<backend, topo, mainPc, handle, role, targets_, send_count_,
                 timers, fes, selfMsg, now, fires, arrivedIn, ended>>

\* a message from outside the topology reaches an actor.  Outside senders
\* get at the handles that main holds when its spawn statements are done.
CafExternalSend(i, a) ==
  /\ backend = "caf"
  /\ i \in Ids
  /\ mainPc = Len(CafMain(topo))
  /\ handle[role[i]] = i
  /\ alive[i]
  /\ injected < MaxExternal
  /\ injected' = injected + 1
  /\ mailbox' = [mailbox EXCEPT ![i] =
                   Append(@, [atom |-> a, from |-> 0, timer |-> FALSE,
                              due |-> 0])]
  /\ last' = Step("inject", i, "none", a, now, << >>, send_count_[i])
  /\ UNCHANGED <<backend, topo, mainPc, handle, role, targets_, send_count_,
                 timers, fes, selfMsg, now, fires, consumedFrom, arrivedIn,
                 ended, alive>>

----------------------------------------------------------------------------
(* OMNeT++ actions *)

\* network setup: the next module is created and its initialize() runs
OmnetInitialize ==
  /\ backend = "omnetpp"
  /\ mainPc < Len(Network(topo))
  /\ LET r == Network(topo)[mainPc + 1]
         id == Len(role) + 1
         c == Connections(r)
         ini == initialize(r, now)
     IN /\ role' = Append(role, r)
        /\ targets_' = Append(targets_,
                              [g \in 1..Len(c) |-> ModuleId(topo, c[g])])
        /\ send_count_' = Append(send_count_, ini.sendCount)
        /\ selfMsg' = Append(selfMsg, ini.selfMsg)
        /\ fes' = InsertAllFes(fes, FesEvents(ini.trace, id, now))
        /\ mailbox' = Append(mailbox, << >>)
        /\ timers' = Append(timers, << >>)
        /\ fires' = Append(fires, 0)
        /\ consumedFrom' = Append(consumedFrom, 0)
        /\ arrivedIn' = Append(arrivedIn, [p \in 0..MaxPeriodIndex(topo) |-> 0])
        /\ handle' = [handle EXCEPT ![r] = id]
        /\ alive' = Append(alive, TRUE)
        /\ last' = Step("initialize", id, "none", "none", now, ini.trace, 0)
  /\ mainPc' = mainPc + 1
  /\ UNCHANGED <<backend, topo, now, injected, ended>>

\* the simulation kernel takes the first event of the future event set,
\* advances the clock to it and calls handleMessage of its module
OmnetHandle ==
  /\ backend = "omnetpp"
  /\ mainPc = Len(Network(topo))
  /\ ~ended
  /\ fes # << >>
  /\ Head(fes).time <= MaxTime(topo)
  /\ LET e == Head(fes)
         i == e.dest
         h == handleMessage(role[i], targets_[i], send_count_[i], e.self,
                            e.time)
     IN /\ now' = e.time
        /\ send_count_' = [send_count_ EXCEPT ![i] = h.count]
        /\ fes' = InsertAllFes(Tail(fes), FesEvents(h.trace, i, e.time))
        /\ fires' = IF h.kind = "fire" THEN [fires EXCEPT ![i] = @ + 1]
                    ELSE fires
        /\ consumedFrom' = IF ~e.self /\ e.from \in Ids
                           THEN [consumedFrom EXCEPT ![e.from] = @ + 1]
                           ELSE consumedFrom
        /\ arrivedIn' = IF e.self \/ e.from = 0 THEN arrivedIn
                        ELSE [arrivedIn EXCEPT
                                ![i][PeriodOf(topo, e.time)] = @ + 1]
        /\ last' = [Step(h.kind, i, IF e.self THEN "timer" ELSE "message",
                         e.atom, e.time, h.trace, send_count_[i])
                      EXCEPT !.seq = e.seq]
  /\ UNCHANGED <<backend, topo, mainPc, handle, role, targets_, mailbox,
                 timers, selfMsg, injected, ended, alive>>

\* a message from outside the network arrives at a module
OmnetExternalSend(i, a) ==
  /\ backend = "omnetpp"
  /\ i \in Ids
  /\ mainPc = Len(Network(topo))
  /\ injected < MaxExternal
  /\ ~ended
  /\ injected' = injected + 1
  /\ fes' = InsertFes(fes, [time |-> now, dest |-> i, self |-> FALSE,
                            atom |-> a, from |-> 0, seq |-> InsertionNo(1)])
  /\ last' = Step("inject", i, "none", a, now, << >>, send_count_[i])
  /\ UNCHANGED <<backend, topo, mainPc, handle, role, targets_, send_count_,
                 mailbox, timers, selfMsg, now, fires, consumedFrom,
                 arrivedIn, ended, alive>>

\* the event loop has stopped and the kernel calls finish() of a module
OmnetFinish(i) ==
  /\ backend = "omnetpp"
  /\ i \in Ids
  /\ mainPc = Len(Network(topo))
  /\ LET f == finish(selfMsg[i])
     IN /\ selfMsg' = [selfMsg EXCEPT ![i] = f.selfMsg]
        /\ fes' = IF f.cancel
                  THEN SelectSeq(fes, LAMBDA e : ~(e.self /\ e.dest = i))
                  ELSE fes
        /\ last' = [Step("finish", i, "none", "none", now, << >>,
                         send_count_[i])
                      EXCEPT !.fes = fes, !.error = f.error]
  /\ ended' = TRUE
  /\ UNCHANGED <<backend, topo, mainPc, handle, role, targets_, send_count_,
                 mailbox, timers, now, fires, consumedFrom, arrivedIn,
                 injected, alive>>

----------------------------------------------------------------------------

Next ==
  \/ CafSpawn
  \/ CafTick
  \/ \E i \in Ids : CafTimeout(i)
  \/ \E i \in Ids : CafHandle(i)
  \/ \E i \in Ids : \E a \in ExternalAtoms : CafExternalSend(i, a)
  \/ OmnetInitialize
  \/ OmnetHandle
  \/ \E i \in Ids : \E a \in ExternalAtoms : OmnetExternalSend(i, a)
  \/ \E i \in Ids : OmnetFinish(i)

Spec == Init /\ [][Next]_vars

\* the program with failing hooks and with actors that are terminated from
\* outside
FaultNext ==
  \/ Next
  \/ \E i \in Ids : CafHookThrows(i)
  \/ \E i \in Ids : CafExit(i)

FaultSpec == Init /\ [][FaultNext]_vars

\* the burst topology without messages from outside, with room for the
\* firings of two periods
BurstInit == Init /\ topo = "burst"

BurstNext ==
  \/ CafSpawn
  \/ CafTickUpTo(MaxBurstFirings)
  \/ \E i \in Ids : CafTimeout(i)
  \/ \E i \in Ids : CafHandleUpTo(i, MaxBurstFirings)
  \/ OmnetInitialize
  \/ OmnetHandle

BurstSpec == BurstInit /\ [][BurstNext]_vars

\* the OMNeT++ realization alone
OmnetInit == Init /\ backend = "omnetpp"

OmnetNext ==
  \/ OmnetInitialize
  \/ OmnetHandle
  \/ \E i \in Ids : \E a \in ExternalAtoms : OmnetExternalSend(i, a)
  \/ \E i \in Ids : OmnetFinish(i)

OmnetSpec == OmnetInit /\ [][OmnetNext]_vars

----------------------------------------------------------------------------
(* Observations used by the properties *)

\* the last step ran the body of a handler
Fired == last.kind = "fire"

\* the last step handed a message from another sender to an actor
TookMessage == last.kind \in {"fire", "drop", "recv"} /\ last.trigger = "message"

\* the wiring step of main, or the network setup, is complete
Wired == mainPc = (IF backend = "caf" THEN Len(CafMain(topo))
                   ELSE Len(Network(topo)))

\* nothing is left to do at the current time
Quiescent ==
  /\ Wired
  /\ \A i \in Ids : mailbox[i] = << >> /\ DueTimers(timers[i], now) = << >>
  /\ fes = << >> \/ Head(fes).time > now

\* no actor has reached the bound on handler executions
Uncapped == \A i \in Ids : fires[i] < MaxFirings

\* the period of the schedule of an actor, 0 without a schedule
SchedulePeriod(i) ==
  IF backend = "caf" THEN CafDelay(role[i]) ELSE OmnetInterval(role[i])

\* the burst count of the schedule of an actor
BurstCount(i) ==
  IF backend = "caf" THEN CafArmCount(role[i]) ELSE OmnetBurst(role[i])

RECURSIVE SumUpTo(_, _)
SumUpTo(f, n) == IF n < 0 THEN 0 ELSE f[n] + SumUpTo(f, n - 1)

\* messages from other actors that have arrived at actor i
Arrived(i) == SumUpTo(arrivedIn[i], MaxPeriodIndex(topo))

\* messages from other actors that have arrived at the instances of a role
ArrivedAtRole(r) ==
  SumSeq([i \in Ids |-> IF role[i] = r THEN Arrived(i) ELSE 0])

\* messages of actor i that are in a mailbox or in the future event set
InFlightFrom(i) ==
  SumSeq([j \in Ids |->
            Len(SelectSeq(mailbox[j], LAMBDA m : ~m.timer /\ m.from = i))])
  + Len(SelectSeq(fes, LAMBDA e : ~e.self /\ e.from = i))

\* pending self-triggers of actor i
PendingTriggers(i) ==
  [k \in 1..Len(timers[i]) |-> timers[i][k].due]
  \o [k \in 1..Len(SelectSeq(fes, LAMBDA e : e.self /\ e.dest = i)) |->
        SelectSeq(fes, LAMBDA e : e.self /\ e.dest = i)[k].time]

----------------------------------------------------------------------------
(* Properties *)

\* C1: every firing of the burst generator with one target increases its
\* sendCount by exactly 10, and in every completed period exactly 10 messages
\* arrive at its target.
C1_BurstTenPerFiring ==
  /\ (Fired /\ role[last.actor] = "burst_generator"
            /\ Len(targets_[last.actor]) = 1)
       => send_count_[last.actor] = last.before + 10
  /\ \A i \in Ids :
       (/\ role[i] = "burst_generator"
        /\ Len(targets_[i]) = 1
        /\ Uncapped)
       => \A k \in 1..MaxPeriods :
            now > k * Period(topo) => arrivedIn[targets_[i][1]][k] = 10

\* C2: every firing of a load balancer with three targets increases its
\* sendCount by exactly 3 and sends exactly one message to each target, in
\* target-list order: server1, server2, server3.
C2_BalancerFanOut ==
  (Fired /\ role[last.actor] = "load_balancer"
         /\ Len(targets_[last.actor]) = 3)
    => LET s == Sends(last.trace)
       IN /\ send_count_[last.actor] = last.before + 3
          /\ Len(s) = 3
          /\ \A k \in 1..3 : s[k].to = targets_[last.actor][k]
          /\ role[s[1].to] = "server1"
          /\ role[s[2].to] = "server2"
          /\ role[s[3].to] = "server3"

\* a CAF load balancer with three targets has fired for the second time
C2_Witness ==
  /\ Fired
  /\ backend = "caf"
  /\ role[last.actor] = "load_balancer"
  /\ Len(targets_[last.actor]) = 3
  /\ fires[last.actor] = 2

\* C3: in the pipeline as wired, once nothing is left in flight, every
\* firing of the source has been followed by exactly one delivery at stage1,
\* one at stage2, one at stage3 and one at the sink.
C3_PipelineDelivers ==
  (topo = "pipeline" /\ injected = 0 /\ Quiescent /\ Uncapped)
    => \A r \in {"stage1", "stage2", "stage3", "sink"} :
         ArrivedAtRole(r) = fires[handle["source"]]

\* C4: once the topology is wired, every firing of the publisher that the
\* wiring leaves in place delivers exactly one message to each of subscriber1, subscriber2 and
\* subscriber3, and to no other actor.
C4_PublisherBroadcast ==
  (Fired /\ Wired /\ role[last.actor] = "publisher"
         /\ handle["publisher"] = last.actor)
    => LET s == Sends(last.trace)
       IN /\ Len(s) = 3
          /\ \A r \in {"subscriber1", "subscriber2", "subscriber3"} :
               Cardinality({k \in 1..Len(s) : s[k].to = handle[r]}) = 1
          /\ \A k \in 1..Len(s) :
               role[s[k].to] \in {"subscriber1", "subscriber2", "subscriber3"}

\* the wired CAF publisher has fired and its three messages are in the
\* mailboxes of the subscribers
C4_Witness ==
  /\ Fired
  /\ backend = "caf"
  /\ role[last.actor] = "publisher"
  /\ Wired
  /\ handle["publisher"] = last.actor
  /\ \A r \in {"subscriber1", "subscriber2", "subscriber3"} :
       \E k \in 1..Len(mailbox[handle[r]]) :
         mailbox[handle[r]][k].from = last.actor

\* C5: one firing of a self-scheduling actor with burst count b and n targets
\* delivers exactly b messages to each listed target, increases sendCount by
\* n * b, and delivers nothing to an actor outside the target list.
C5_FanOutProduct ==
  (Fired /\ SchedulePeriod(last.actor) > 0)
    => LET s == Sends(last.trace)
           tg == targets_[last.actor]
           b == BurstCount(last.actor)
       IN /\ Len(s) = Len(tg) * b
          /\ send_count_[last.actor] = last.before + Len(tg) * b
          /\ \A g \in 1..Len(tg) :
               Cardinality({k \in 1..Len(s) : s[k].to = tg[g]}) = b
          /\ \A k \in 1..Len(s) : \E g \in 1..Len(tg) : s[k].to = tg[g]

\* C6: sendCount of every actor equals the number of messages the actor has
\* sent; it starts at 0, never decreases, and only a firing of the actor
\* itself changes it.
C6_SendCountOwned ==
  /\ \A i \in Ids : send_count_[i] = consumedFrom[i] + InFlightFrom(i)
  /\ \A i \in Ids :
       IF i <= Len(last.counts)
       THEN /\ send_count_[i] >= last.counts[i]
            /\ send_count_[i] # last.counts[i]
                 => last.kind = "fire" /\ last.actor = i
       ELSE send_count_[i] = 0

\* an actor has counted three sends, of which one has been taken by its
\* receiver and two are still in a mailbox
C6_Witness ==
  \E i \in Ids : /\ backend = "caf"
                 /\ send_count_[i] = 3
                 /\ consumedFrom[i] = 1
                 /\ InFlightFrom(i) = 2

\* C7: an actor whose target list is empty keeps sendCount at 0 and causes
\* no delivery, whatever triggers or messages it receives.
C7_EmptyTargetsSilent ==
  \A i \in Ids :
    targets_[i] = << >>
      => /\ send_count_[i] = 0
         /\ consumedFrom[i] = 0
         /\ InFlightFrom(i) = 0
         /\ last.actor = i => Sends(last.trace) = << >>

\* an actor with an empty target list has run its handler for a message from
\* another sender after having fired before
C7_Witness ==
  /\ Fired
  /\ last.trigger = "message"
  /\ targets_[last.actor] = << >>
  /\ fires[last.actor] >= 2

\* C8: every firing of a CAF actor, whether a timer or an inbound message
\* triggered it, invokes the hook exactly once, before the first send.
C8_HookOncePerFiring ==
  (Fired /\ backend = "caf")
    => /\ Len(Hooks(last.trace)) = 1
       /\ last.trace[1].op = "hook"

\* C9: after each firing of an actor with period P > 0 a self-trigger of the
\* actor is pending at firing time + P, and the actor, unless it has
\* terminated, has fired in every period that has passed; an actor with
\* period 0 is never armed.
C9_Rearm ==
  /\ (Fired /\ SchedulePeriod(last.actor) > 0)
       => /\ Len(Arms(last.trace)) >= 1
          /\ \E k \in 1..Len(PendingTriggers(last.actor)) :
               PendingTriggers(last.actor)[k]
                 = last.time + SchedulePeriod(last.actor)
  /\ \A i \in Ids :
       IF SchedulePeriod(i) > 0
       THEN \A k \in 1..MaxPeriods :
              (alive[i] /\ now > k * SchedulePeriod(i)) => fires[i] >= k
       ELSE /\ PendingTriggers(i) = << >>
            /\ \A k \in 1..Len(mailbox[i]) : ~mailbox[i][k].timer
            /\ last.actor = i => Arms(last.trace) = << >>

\* a periodic actor has fired for the second time, one period after its first
\* firing, and is armed for a third
C9_Witness ==
  /\ Fired
  /\ last.trigger = "timer"
  /\ SchedulePeriod(last.actor) > 0
  /\ fires[last.actor] = 2
  /\ last.time = 2 * SchedulePeriod(last.actor)
  /\ PendingTriggers(last.actor) # << >>

\* C10: when an actor without a schedule and with a non-empty target list
\* receives any message, it sends one message to each of its targets,
\* increases sendCount by the number of targets and arms no timer.
C10_ForwardOnAnyMessage ==
  (/\ TookMessage
   /\ SchedulePeriod(last.actor) = 0
   /\ targets_[last.actor] # << >>)
    => LET s == Sends(last.trace)
           tg == targets_[last.actor]
       IN /\ Len(s) = Len(tg)
          /\ \A k \in 1..Len(s) : s[k].to = tg[k]
          /\ send_count_[last.actor] = last.before + Len(tg)
          /\ Arms(last.trace) = << >>

\* C11: a message from another sender that a self-scheduled actor takes
\* causes no send, leaves the actor's sendCount unchanged and arms no timer.
C11_InboundCausesNoSend ==
  (TookMessage /\ SchedulePeriod(last.actor) > 0)
    => /\ Sends(last.trace) = << >>
       /\ send_count_[last.actor] = last.before
       /\ Arms(last.trace) = << >>

\* C12: once the wiring step is complete, every target reference held by the
\* current instance of a role refers to the current instance of the target's
\* role, never to an instance that a later spawn superseded.
C12_TargetsAreCurrent ==
  Wired
    => \A r \in Roles :
         handle[r] # 0
           => \A k \in 1..Len(targets_[handle[r]]) :
                LET tgt == targets_[handle[r]][k]
                IN tgt = handle[role[tgt]]

\* C13: no step changes the target list of an existing actor: the list is the
\* one given at construction, and every fan-out goes to exactly the actors
\* of that list.
C13_TargetsFixed ==
  /\ \A i \in 1..Len(last.tgts) : targets_[i] = last.tgts[i]
  /\ (last.kind = "spawn")
       => LET given == CafMain(topo)[mainPc].args
          IN targets_[last.actor] = [k \in 1..Len(given) |-> handle[given[k]]]
  /\ Fired
       => LET s == Sends(last.trace)
              tg == targets_[last.actor]
          IN /\ \A k \in 1..Len(s) : \E g \in 1..Len(tg) : s[k].to = tg[g]
             /\ s # << >>
                  => \A g \in 1..Len(tg) : \E k \in 1..Len(s) : s[k].to = tg[g]

\* the publisher has fired for the second time and still holds the three
\* subscribers it was constructed with
C13_Witness ==
  /\ Fired
  /\ backend = "caf"
  /\ role[last.actor] = "publisher"
  /\ fires[last.actor] = 2
  /\ Len(Sends(last.trace)) = 3
  /\ targets_[last.actor]
       = <<handle["subscriber1"], handle["subscriber2"], handle["subscriber3"]>>

\* C14: an actor without a schedule never has a pending self-trigger, neither
\* at the clock, nor in its mailbox, nor in the future event set, and every
\* run of its handler is in response to a message from another sender.
C14_UnscheduledNeverSelfTriggers ==
  \A i \in Ids :
    SchedulePeriod(i) = 0
      => /\ PendingCount(i) = 0
         /\ PendingTriggers(i) = << >>
         /\ selfMsg[i] = "null"
         /\ (last.actor = i /\ last.kind \in {"fire", "recv", "drop"})
              => last.trigger = "message"

\* a CAF actor without a schedule and with a target has run its handler on a
\* message and has sent
C14_Witness ==
  /\ Fired
  /\ backend = "caf"
  /\ SchedulePeriod(last.actor) = 0
  /\ last.trigger = "message"
  /\ Sends(last.trace) # << >>
  /\ PendingCount(last.actor) = 0

MailboxDues(i) ==
  LET m == SelectSeq(mailbox[i], LAMBDA e : e.timer)
  IN [k \in 1..Len(m) |-> m[k].due]

SendCountAt(r, t) ==
  IF r \in OmnetScheduled
  THEN (t \div OmnetInterval(r)) * OmnetBurst(r) * OmnetGates(r)
  ELSE 0

\* C18: in the discrete-event realization, sendCount of every actor after all
\* events up to a virtual time have been handled depends on the topology,
\* the schedules and that time only, so two runs of the same topology to the
\* same time agree on it.
C18_Deterministic ==
  (backend = "omnetpp" /\ Quiescent)
    => \A i \in Ids : send_count_[i] = SendCountAt(role[i], now)

\* a run that got a message from outside has handled every event up to the
\* end of the second period, and the scheduled module has sent in both
C18_Witness ==
  /\ backend = "omnetpp"
  /\ Quiescent
  /\ injected = 1
  /\ now = 2 * Period(topo)
  /\ \E i \in Ids : /\ role[i] \in OmnetScheduled
                    /\ send_count_[i] = 2 * OmnetBurst(role[i])
                                          * OmnetGates(role[i])
                    /\ send_count_[i] >= 6

\* C19: finish() raises no error and leaves the module without a selfMsg and
\* without a pending self-trigger; it changes nothing else, and when the
\* timer is already cancelled or was never created it changes nothing at
\* all, so that a second finish() leaves the state the first one left.
C19_FinishIdempotent ==
  last.kind = "finish"
    => LET i == last.actor
       IN /\ ~last.error
          /\ selfMsg[i] = "null"
          /\ PendingCount(i) = 0
          /\ \A j \in Ids \ {i} : selfMsg[j] = last.was[j]
          /\ send_count_ = last.counts
          /\ targets_ = last.tgts
          /\ fes = SelectSeq(last.fes, LAMBDA e : ~(e.self /\ e.dest = i))
          /\ last.was[i] = "null" => fes = last.fes /\ selfMsg = last.was

\* finish() of a module whose timer had been created, had fired and had
\* been cancelled by an earlier finish() has run again
C19_Witness ==
  /\ last.kind = "finish"
  /\ role[last.actor] \in OmnetScheduled
  /\ fires[last.actor] >= 1
  /\ last.was[last.actor] = "null"
  /\ fes # << >>

\* the last step handed an actor a message from another sender for whose
\* kind the actor has no handler: an atom other than the one a CAF behavior
\* is declared for, or any message at an OMNeT++ module, which has none
Unhandled ==
  /\ TookMessage
  /\ backend = "caf" => /\ role[last.actor] \notin CafAnyAtom
                        /\ last.atom # CafHandlerAtom(role[last.actor])

\* C20: a message whose kind the receiver has no handler for is dropped: the
\* receiver sends nothing and arms nothing, sendCount, target lists and
\* pending timers of every actor stay as they were, and the handler body
\* does not run.
C20_UnknownKindDropped ==
  Unhandled
    => /\ last.trace = << >>
       /\ send_count_ = last.counts
       /\ targets_ = last.tgts
       /\ \A i \in Ids : PendingCount(i) = last.pend[i]
       /\ last.kind # "fire"

\* a CAF actor has dropped a msg_atom, and the next message of its mailbox is
\* one its handler is declared for
C20_Witness ==
  /\ Unhandled
  /\ backend = "caf"
  /\ last.kind = "drop"
  /\ last.atom = "msg"
  /\ mailbox[last.actor] # << >>
  /\ Head(mailbox[last.actor]).atom = CafHandlerAtom(role[last.actor])

----------------------------------------------------------------------------
(* Failures: stale targets, finished actors, failing hooks *)

\* the targets of the actor of the last step that had terminated before it
StaleTargets(i) ==
  {k \in 1..Len(targets_[i]) : ~last.live[targets_[i][k]]}

\* C21: when a target in the list of a firing CAF actor has terminated, the
\* fan-out still makes one send per target in list order and counts every
\* one of them, nothing reaches the terminated target, every live target has
\* the message as the newest entry of its mailbox, and the sender goes on:
\* it stays alive and a self-scheduling sender is armed again.
C21_StaleTargetCounted ==
  (backend = "caf" /\ Fired /\ StaleTargets(last.actor) # {})
    => LET i == last.actor
           tg == targets_[i]
           s == Sends(last.trace)
       IN /\ Len(s) = Len(tg)
          /\ \A k \in 1..Len(tg) : s[k].to = tg[k]
          /\ send_count_[i] = last.before + Len(tg)
          /\ alive[i]
          /\ role[i] \in CafScheduled => Len(Arms(last.trace)) >= 1
          /\ \A k \in 1..Len(tg) :
               IF alive[tg[k]]
               THEN /\ mailbox[tg[k]] # << >>
                    /\ mailbox[tg[k]][Len(mailbox[tg[k]])]
                         = [atom |-> "msg", from |-> i, timer |-> FALSE,
                            due |-> 0]
               ELSE mailbox[tg[k]] = << >>

\* an actor with three targets has fired after its second target terminated:
\* its count went up by three and the third target has the message
C21_Witness ==
  /\ backend = "caf"
  /\ Fired
  /\ Len(targets_[last.actor]) = 3
  /\ StaleTargets(last.actor) = {2}
  /\ send_count_[last.actor] = last.before + 3
  /\ mailbox[targets_[last.actor][3]] # << >>

\* the events of the future event set q that are not self-triggers of i
OthersEvents(q, i) == SelectSeq(q, LAMBDA e : ~(e.self /\ e.dest = i))

\* C22: a self-trigger of an actor that has shut down is dropped in silence.
\* OMNeT++: once finish() has run no handler runs any more, the finished
\* module has no self-trigger left, and finish() changes no sendCount, no
\* target list, no other module's selfMsg and no other module's events.
\* CAF: a terminated actor takes no message, a self-trigger that comes due
\* for it is discarded by the clock, and that changes no sendCount and no
\* other actor's pending triggers.
C22_FinishedActorSilent ==
  /\ ended
       => /\ last.kind = "finish"
          /\ send_count_ = last.counts
          /\ targets_ = last.tgts
          /\ selfMsg[last.actor] = "null"
          /\ PendingCount(last.actor) = 0
          /\ \A j \in Ids \ {last.actor} : selfMsg[j] = last.was[j]
          /\ OthersEvents(fes, last.actor) = OthersEvents(last.fes, last.actor)
  /\ \A i \in Ids : ~alive[i] => mailbox[i] = << >>
  /\ last.kind \in {"fire", "drop", "throw"} => last.live[last.actor]
  /\ (last.kind = "timeout" /\ ~alive[last.actor])
       => /\ send_count_ = last.counts
          /\ targets_ = last.tgts
          /\ PendingCount(last.actor) < last.pend[last.actor]
          /\ \A j \in Ids \ {last.actor} : PendingCount(j) = last.pend[j]

\* finish() has run in a Source that had fired and had its next self-trigger
\* in the future event set: the trigger is gone and the count is as it was
C22_Witness ==
  /\ last.kind = "finish"
  /\ role[last.actor] = "source"
  /\ fires[last.actor] >= 1
  /\ last.was[last.actor] = "scheduled"
  /\ \E k \in 1..Len(last.fes) :
       last.fes[k].self /\ last.fes[k].dest = last.actor
  /\ PendingCount(last.actor) = 0
  /\ send_count_[last.actor] = last.counts[last.actor]
  /\ send_count_[last.actor] >= 1

----------------------------------------------------------------------------
(* Concurrency *)

\* the messages from actor i that wait in the mailbox of actor j
Backlog(i, j) == Len(SelectSeq(mailbox[j], LAMBDA m : ~m.timer /\ m.from = i))

SendsPerFiring(i) ==
  IF backend = "caf"
  THEN (IF role[i] \in CafTerminal THEN 0 ELSE Len(targets_[i]))
  ELSE OmnetBurst(role[i]) * OmnetGates(role[i])

----------------------------------------------------------------------------
(* The two realizations side by side *)

\* C26: for the same topology and schedule the two realizations give every
\* role the same sendCount after the same number of elapsed periods.  The
\* sendCount of a module in OMNeT++ once the events of a time are handled is
\* SendCountAt; in both realizations the actor that holds a role never has a
\* larger count at that time, and has that count when nothing is left to do
\* at that time.
C26_RealizationsAgree ==
  \A i \in Ids :
    (Wired /\ handle[role[i]] = i)
      => /\ send_count_[i] <= SendCountAt(role[i], now)
         /\ (Quiescent /\ \A j \in Ids : fires[j] < MaxBurstFirings)
              => send_count_[i] = SendCountAt(role[i], now)

----------------------------------------------------------------------------
(* Deliveries and the order of sends *)

\* C27: in the load-balanced topology as wired, without messages from
\* outside, once nothing is left to do at the current time the database has
\* had exactly three deliveries for every firing of the load balancer.
C27_BalancerReachesDatabase ==
  (topo = "loadbalanced" /\ injected = 0 /\ Quiescent /\ Uncapped)
    => ArrivedAtRole("database") = 3 * fires[handle["load_balancer"]]

\* the receivers of the messages of actor i that wait in the future event
\* set, in the order in which the kernel will deliver them
DeliveryOrder(i) ==
  LET q == SelectSeq(fes, LAMBDA e : ~e.self /\ e.from = i)
  IN [k \in 1..Len(q) |-> q[k].dest]

----------------------------------------------------------------------------
(* The first-spawned instances and the triggers of the burst generator *)

\* the CAF actors of self-scheduling classes that main has re-spawned: main
\* holds the handle of the later instance
Superseded ==
  {i \in Ids : backend = "caf" /\ role[i] \in CafScheduled
               /\ handle[role[i]] # i}

\* C29: the first-spawned instance of a self-scheduling CAF role is not
\* stopped by its re-spawn.  It has no targets and its sendCount stays 0; it
\* always has a self-trigger pending, it has fired in every period that has
\* passed, and the re-spawned instance of its role runs beside it.
C29_FirstInstanceKeepsFiring ==
  \A i \in Superseded :
    /\ alive[i]
    /\ targets_[i] = << >>
    /\ send_count_[i] = 0
    /\ PendingCount(i) >= 1
    /\ \A k \in 1..MaxPeriods : now > k * CafDelay(role[i]) => fires[i] >= k
    /\ alive[handle[role[i]]]
    /\ PendingCount(handle[role[i]]) >= 1
    /\ (Fired /\ last.actor = i)
         => /\ Sends(last.trace) = << >>
            /\ Len(Arms(last.trace)) >= 1

\* the first-spawned publisher has fired in the second period, after the
\* re-spawned publisher has sent to the three subscribers twice
C29_Witness ==
  /\ Fired
  /\ last.actor \in Superseded
  /\ role[last.actor] = "publisher"
  /\ fires[last.actor] = 2
  /\ send_count_[last.actor] = 0
  /\ now = 2 * CafDelay("publisher")
  /\ send_count_[handle["publisher"]] = 6

\* C30: in the CAF burst generator every firing takes one pending
\* self-trigger and arms 10 new ones: after k firings the actor has exactly
\* 10 + 9k self-triggers pending, 9 more after each firing than before it.
C30_TriggersGrow ==
  \A i \in Ids :
    (backend = "caf" /\ role[i] = "burst_generator" /\ alive[i])
      => /\ PendingCount(i) = 10 + 9 * fires[i]
         /\ (Fired /\ last.actor = i)
              => /\ last.trigger = "timer"
                 /\ Len(Arms(last.trace)) = 10
                 /\ PendingCount(i) = last.pend[i] + 9

\* the re-spawned burst generator has fired three times: 37 triggers pending
C30_Witness ==
  /\ backend = "caf"
  /\ Fired
  /\ role[last.actor] = "burst_generator"
  /\ handle["burst_generator"] = last.actor
  /\ fires[last.actor] = 3
  /\ last.pend[last.actor] = 28
  /\ PendingCount(last.actor) = 37

----------------------------------------------------------------------------
(* Timers, start-up and termination of a firing *)

\* C31: an OMNeT++ module never has more than one self-message pending.  A
\* module with a send pattern has exactly one while selfMsg is set and none
\* after finish(); scheduleAt is called by initialize() and by the handling
\* of selfMsg only, once, when no self-message of the module is in the
\* future event set; a module without a send pattern never has a selfMsg
\* and never a self-message pending.
C31_OneSelfMessage ==
  backend = "omnetpp"
    => /\ \A i \in Ids :
            /\ PendingCount(i) <= 1
            /\ IF role[i] \in OmnetScheduled
               THEN /\ selfMsg[i] \in {"scheduled", "null"}
                    /\ PendingCount(i) = (IF selfMsg[i] = "scheduled" THEN 1
                                          ELSE 0)
               ELSE selfMsg[i] = "null" /\ PendingCount(i) = 0
       /\ last.actor \in Ids
            => LET i == last.actor
                   a == Arms(last.trace)
                   before == IF i <= Len(last.pend) THEN last.pend[i] ELSE 0
                   taken == IF Fired /\ last.trigger = "timer" THEN 1 ELSE 0
               IN /\ Len(a) <= 1
                  /\ a # << >>
                       => /\ last.kind \in {"initialize", "fire"}
                          /\ role[i] \in OmnetScheduled
                          /\ before - taken = 0
                          /\ a[1].due > last.time

\* the producer has handled its selfMsg for the second time and scheduled it
\* again: one self-message pending, as before the firing
C31_Witness ==
  /\ backend = "omnetpp"
  /\ Fired
  /\ last.trigger = "timer"
  /\ role[last.actor] = "producer"
  /\ fires[last.actor] = 2
  /\ last.pend[last.actor] = 1
  /\ Len(Arms(last.trace)) = 1
  /\ PendingCount(last.actor) = 1

\* C32: in a CAF self-scheduling actor the hook is the first statement of
\* the handler: a firing whose hook fails has made no send, has not changed
\* sendCount and has armed no timer, so the actor has no more pending
\* triggers than before, and fewer when the firing was on a self-trigger.
\* When that trigger was the actor's only pending one, the actor has no
\* trigger left; the actor has terminated, and a terminated actor does not
\* fire.
C32_FailedHookSendsNothing ==
  /\ (Fired /\ backend = "caf" /\ role[last.actor] \in CafScheduled)
       => last.trace[1].op = "hook"
  /\ last.kind = "throw"
       => LET i == last.actor
          IN /\ role[i] \in CafScheduled
             /\ last.trace = <<HookOp>>
             /\ send_count_[i] = last.before
             /\ send_count_ = last.counts
             /\ Sends(last.trace) = << >> /\ Arms(last.trace) = << >>
             /\ PendingCount(i) <= last.pend[i]
             /\ last.trigger = "timer"
                  => /\ PendingCount(i) < last.pend[i]
                     /\ last.pend[i] = 1 => PendingCount(i) = 0
             /\ ~alive[i]
  /\ Fired => alive[last.actor]

\* the hook of the re-spawned source has failed in its second firing, on
\* the only trigger it had: it has sent once, in the first period, and has
\* no trigger left
C32_Witness ==
  /\ last.kind = "throw"
  /\ role[last.actor] = "source"
  /\ handle["source"] = last.actor
  /\ last.trigger = "timer"
  /\ last.pend[last.actor] = 1
  /\ fires[last.actor] = 1
  /\ send_count_[last.actor] = 1
  /\ PendingCount(last.actor) = 0
  /\ now = 2 * CafDelay("source")

\* C33: no actor sends at start-up.  The step that starts an actor makes no
\* send and arms a self-scheduling actor for one period later; the first
\* firing of a self-scheduling actor on a self-trigger is at one period
\* after the start; and in a run without disturbance from outside every
\* sendCount is 0 and no actor has fired until the first period has passed.
C33_NoSendAtStart ==
  /\ last.kind \in {"spawn", "initialize"}
       => LET i == last.actor
              a == Arms(last.trace)
          IN /\ Sends(last.trace) = << >>
             /\ send_count_[i] = 0
             /\ a # << >> <=> SchedulePeriod(i) > 0
             /\ \A k \in 1..Len(a) : a[k].due = last.time + SchedulePeriod(i)
  /\ (Fired /\ last.trigger = "timer" /\ fires[last.actor] = 1)
       => /\ SchedulePeriod(last.actor) > 0
          /\ last.time = SchedulePeriod(last.actor)
  /\ (injected = 0 /\ now < Period(topo))
       => \A i \in Ids : send_count_[i] = 0 /\ fires[i] = 0

\* the publisher has fired for the first time, at t = 100, one period after
\* its start at 0; until then no actor had sent
C33_Witness ==
  /\ Fired
  /\ role[last.actor] = "publisher"
  /\ fires[last.actor] = 1
  /\ last.time = 100
  /\ \A i \in Ids : last.counts[i] = 0
  /\ send_count_[last.actor] = 3
  /\ injected = 0

----------------------------------------------------------------------------
(* A firing statement by statement *)

\* the handler at its first statement: nothing sent, send_count_ as found
HandlerStart(pc, count) ==
  [pc |-> pc, i |-> 0, g |-> 0, trace |-> << >>, count |-> count,
   steps |-> 0]

\* one statement of the handler returned by make_behavior, or one test of a
\* loop of send_to_targets or schedule_next_send; the handler starts at the
\* call of the hook in a self-scheduling class and at send_to_targets in the
\* others
CafHandlerStep(r, targets, t, c) ==
  LET n == [c EXCEPT !.steps = @ + 1]
  IN CASE c.pc = "hook" ->
            [n EXCEPT !.pc = "send", !.trace = Append(@, HookOp)]
       [] c.pc = "send" ->
            IF r \notin CafTerminal /\ c.i < Len(targets)
            THEN [n EXCEPT !.i = @ + 1, !.count = @ + 1,
                           !.trace = Append(@, SendOp(targets[c.i + 1],
                                                      "msg"))]
            ELSE [n EXCEPT !.pc = "arm", !.i = 0]
       [] c.pc = "arm" ->
            IF c.i < CafArmCount(r)
            THEN [n EXCEPT !.i = @ + 1,
                           !.trace = Append(@, ArmOp(CafHandlerAtom(r),
                                                     t + CafDelay(r)))]
            ELSE [n EXCEPT !.pc = "await"]
       [] OTHER -> c

RECURSIVE CafHandlerRun(_, _, _, _, _)
\* the handler run from configuration c until it returns, for at most fuel
\* statements
CafHandlerRun(r, targets, t, c, fuel) ==
  IF c.pc = "await" \/ fuel = 0 THEN c
  ELSE CafHandlerRun(r, targets, t, CafHandlerStep(r, targets, t, c),
                     fuel - 1)

\* a send block whose inner loop does not advance its gate index
handleMessageStep_no_increment(r, gates, isSelf, t, c) ==
  LET n == [c EXCEPT !.steps = @ + 1]
  IN CASE c.pc = "test" ->
            IF r \in OmnetReceiveOnly \/ ~isSelf
            THEN [n EXCEPT !.pc = "delete"]
            ELSE IF r \in OmnetScheduled THEN [n EXCEPT !.pc = "send"]
                 ELSE [n EXCEPT !.pc = "await"]
       [] c.pc = "send" ->
            IF c.i < OmnetBurst(r)
            THEN IF c.g < OmnetGates(r)
                 THEN [n EXCEPT !.count = @ + 1,
                                !.trace = Append(@,
                                  SendOp(IF c.g + 1 <= Len(gates)
                                         THEN gates[c.g + 1] ELSE 0,
                                         OmnetMsgName(r)))]
                 ELSE [n EXCEPT !.i = @ + 1, !.g = 0]
            ELSE [n EXCEPT !.pc = "resched"]
       [] c.pc = "resched" ->
            [n EXCEPT !.pc = "await",
                      !.trace = Append(@, ArmOp("selfMsg",
                                                t + OmnetInterval(r)))]
       [] c.pc = "delete" -> [n EXCEPT !.pc = "await"]
       [] OTHER -> c

\* one statement of <Module>::handleMessage(msg), or one test of a loop of
\* its send block: the test of isSelfMessage(), send and sendCount++ for
\* gate g of burst i, scheduleAt, delete
handleMessageStep(r, gates, isSelf, t, c) ==
  LET n == [c EXCEPT !.steps = @ + 1]
  IN CASE c.pc = "test" ->
            IF r \in OmnetReceiveOnly \/ ~isSelf
            THEN [n EXCEPT !.pc = "delete"]
            ELSE IF r \in OmnetScheduled THEN [n EXCEPT !.pc = "send"]
                 ELSE [n EXCEPT !.pc = "await"]
       [] c.pc = "send" ->
            IF c.i < OmnetBurst(r)
            THEN IF c.g < OmnetGates(r)
                 THEN [n EXCEPT !.g = @ + 1, !.count = @ + 1,
                                !.trace = Append(@,
                                  SendOp(IF c.g + 1 <= Len(gates)
                                         THEN gates[c.g + 1] ELSE 0,
                                         OmnetMsgName(r)))]
                 ELSE [n EXCEPT !.i = @ + 1, !.g = 0]
            ELSE [n EXCEPT !.pc = "resched"]
       [] c.pc = "resched" ->
            [n EXCEPT !.pc = "await",
                      !.trace = Append(@, ArmOp("selfMsg",
                                                t + OmnetInterval(r)))]
       [] c.pc = "delete" -> [n EXCEPT !.pc = "await"]
       [] OTHER -> c

RECURSIVE handleMessageRun(_, _, _, _, _, _)
\* handleMessage run from configuration c until it returns, for at most
\* fuel statements
handleMessageRun(r, gates, isSelf, t, c, fuel) ==
  IF c.pc = "await" \/ fuel = 0 THEN c
  ELSE handleMessageRun(r, gates, isSelf, t,
                        handleMessageStep(r, gates, isSelf, t, c), fuel - 1)

\* the statements and loop tests a firing of actor i may take: the hook or
\* the test of the message, one per send, one per re-arm or turn of the
\* burst loop, and the two loop exits
FiringSteps(i) == 3 + SendsPerFiring(i) + BurstCount(i)

\* the last handler run, replayed statement by statement from the state it
\* found
LastRun ==
  LET i == last.actor
  IN IF backend = "caf"
     THEN CafHandlerRun(role[i], last.tgts[i], last.time,
                        HandlerStart(IF role[i] \in CafScheduled
                                     THEN "hook" ELSE "send", last.before),
                        FiringSteps(i))
     ELSE handleMessageRun(role[i], last.tgts[i], last.trigger = "timer",
                           last.time, HandlerStart("test", last.before),
                           FiringSteps(i))

\* C34: every firing terminates.  Run statement by statement from the state
\* the firing found, the handler returns within the statements of its hook,
\* its sends, its re-arms and its loop tests; no statement depends on the
\* state of another actor; what it has done by then is what the firing did
\* (the same sends and re-arms in the same order, the same sendCount); and
\* afterwards the actor awaits its next event: a CAF actor is alive and can
\* take the next message of its mailbox, an OMNeT++ module with a send
\* pattern has its one self-message scheduled again.
C34_FiringTerminates ==
  (last.kind \in {"fire", "recv"})
    => LET i == last.actor
           c == LastRun
       IN /\ c.pc = "await"
          /\ c.steps <= FiringSteps(i)
          /\ c.steps >= Len(last.trace)
          /\ c.trace = last.trace
          /\ c.count = send_count_[i]
          /\ backend = "caf"
               => /\ alive[i]
                  /\ (mailbox[i] # << >> /\ fires[i] < MaxFirings)
                       => CafReady(i)
          /\ (backend = "omnetpp" /\ Fired /\ role[i] \in OmnetScheduled)
               => /\ selfMsg[i] = "scheduled"
                  /\ PendingCount(i) = 1

\* the OMNeT++ LoadBalancer has fired for the second time: 3 sends and the
\* re-arm in 7 statements and loop tests, back to awaiting selfMsg
C34_Witness ==
  /\ backend = "omnetpp"
  /\ Fired
  /\ role[last.actor] = "load_balancer"
  /\ fires[last.actor] = 2
  /\ Len(Sends(last.trace)) = 3
  /\ Len(Arms(last.trace)) = 1
  /\ LastRun.pc = "await"
  /\ LastRun.steps = 7
  /\ PendingCount(last.actor) = 1

====
